---- MODULE Spec2Model ----
(***************************************************************************)
(* statik (src/statik.c): the command-line surface of main() and the       *)
(* whole-file loader readall().                                            *)
(*                                                                         *)
(* Representation choices.                                                 *)
(*  - argv is a sequence of tokens, argv[1] being C's argv[0]; optind and  *)
(*    the other indices keep their C values, so C's argv[i] is argv[i+1].  *)
(*  - A size_t value is held as the integer congruent to it modulo 2^64    *)
(*    that is nearest to zero: SIZE_MAX is -1, SIZE_MAX-1 is -2.  The      *)
(*    unsigned comparisons of the code are ULe/ULt on these.               *)
(*  - The heap is a sequence of blocks; a pointer is a block index, NULL   *)
(*    is 0.  A block's bytes are a set of extents: [at, n, kind, fd, src]  *)
(*    says bytes at..at+n-1 hold bytes src..src+n-1 of the file open on    *)
(*    fd (kind "file") or the NUL byte (kind "nul").  Bytes under no       *)
(*    extent are indeterminate.                                            *)
(***************************************************************************)
EXTENDS Integers, Sequences, FiniteSets, TLC

VARIABLES
  args,      \* the command line as given (never changed)
  posix,     \* TRUE: getopt stops at the first non-option; FALSE: it permutes
  quota,     \* what the environment may do in one readall call
  argv, optind, skipped,
  recursive, bd, ln, src, dest, body, line,
  pc, status, exitLine, out, err,
  call, fd, ftab, opens, nch, len, size, buf, heap,
  didRead, shorts, fails, order, terms, frees, wild

mainVars == <<argv, optind, skipped, recursive, bd, ln, src, dest>>
tmplVars == <<body, line>>
exitVars == <<status, exitLine, out, err>>
fileVars == <<fd, ftab, opens>>
loopVars == <<nch, len, size, buf>>
envVars  == <<didRead, shorts, fails>>
logVars  == <<order, terms, frees, wild>>
vars == <<args, posix, quota, argv, optind, skipped, recursive, bd, ln, src,
          dest, body, line, pc, status, exitLine, out, err, call, fd, ftab,
          opens, nch, len, size, buf, heap, didRead, shorts, fails, order,
          terms, frees, wild>>

----------------------------------------------------------------------------
\* Program constants.
VERSION == 1
BUFFER_SIZE == 4096
READ_SIZE == 2048
NULL == 0
Literal == -1
NoStr == "(null)"

\* Bounds of the model.
MaxArgs == 4
MaxChunks == 3
MaxShorts == 2
MaxFails == 2

Min(a, b) == IF a <= b THEN a ELSE b
Max(a, b) == IF a >= b THEN a ELSE b

----------------------------------------------------------------------------
\* The command line.

Tokens == {"-r", "-b", "-l", "-v", "-h", "-x", "-bw", "-lw", "w"}

ArgLists == UNION {[1..n -> Tokens] : n \in 0..MaxArgs}

\* The option letter of an argv element that starts with '-'.
Letter(t) ==
  CASE t = "-r" -> "r"
    [] t \in {"-b", "-bw"} -> "b"
    [] t \in {"-l", "-lw"} -> "l"
    [] t = "-v" -> "v"
    [] t = "-h" -> "h"
    [] OTHER -> "x"

\* The argument written in the same argv element as its option ("-bw").
Attached(t) == IF t \in {"-bw", "-lw"} THEN "w" ELSE NoStr

IsOption(t) == t # "w"

\* optstring "rb:l:vh" (and, for comparison, one that lost its v)
OptLettersWithoutV == {"r", "b", "l", "h"}
OptLetters == {"r", "b", "l", "v", "h"}
TakesArg(c) == c \in {"b", "l"}

RECURSIVE FirstOption(_, _)
FirstOption(av, i) ==
  IF i >= Len(av) THEN Len(av)
  ELSE IF IsOption(av[i + 1]) THEN i
  ELSE FirstOption(av, i + 1)

\* One call of getopt(argc, argv, "rb:l:vh") with optind = oi.
getopt(av, oi, px) ==
  LET argc == Len(av)
      j == IF px THEN oi ELSE FirstOption(av, oi)
  IN IF j >= argc \/ ~IsOption(av[j + 1])
     THEN [opt |-> "EOF", optarg |-> NoStr, optind |-> oi, skip |-> {}]
     ELSE LET t == av[j + 1]
              c == Letter(t)
              sk == oi..(j - 1)
          IN IF c \notin OptLetters
             THEN [opt |-> "?", optarg |-> NoStr, optind |-> j + 1, skip |-> sk]
             ELSE IF ~TakesArg(c)
             THEN [opt |-> c, optarg |-> NoStr, optind |-> j + 1, skip |-> sk]
             ELSE IF Attached(t) # NoStr
             THEN [opt |-> c, optarg |-> Attached(t), optind |-> j + 1, skip |-> sk]
             ELSE IF j + 1 < argc
             THEN [opt |-> c, optarg |-> av[j + 2], optind |-> j + 2, skip |-> sk]
             ELSE [opt |-> "?", optarg |-> NoStr, optind |-> j + 1, skip |-> sk]

RECURSIVE Ascending(_)
Ascending(S) ==
  IF S = {} THEN <<>>
  ELSE LET m == CHOOSE x \in S : \A y \in S : x <= y
       IN <<m>> \o Ascending(S \ {m})

\* argv as a permuting getopt leaves it when the scan ends: the elements it
\* passed over (C indices in nonopt) moved behind the options, order kept.
Permuted(av, nonopt) ==
  LET idx == 1..(Len(av) - 1)
      ord == Ascending(idx \ nonopt) \o Ascending(nonopt)
  IN <<av[1]>> \o [k \in 1..Len(ord) |-> av[ord[k] + 1]]

\* What printf writes: a pair of the format and its argument (0 when the
\* format takes none).
printf(format, arg) == <<format, arg>>

usage == printf("usage: statik [-r] [-b template] [-l template] [-v] [-h] [src] dest", 0)

\* exit(code) called at source line ln_.
Exit(code, ln_) ==
  /\ pc' = "exited"
  /\ status' = code
  /\ exitLine' = ln_

G == getopt(argv, optind, posix)

readallVars == <<call, fd, ftab, opens, nch, len, size, buf, heap, didRead,
                 shorts, fails, order, terms, frees, wild>>

\* case 'r'
OptR ==
  /\ pc = "getopt" /\ G.opt = "r"
  /\ recursive' = 1
  /\ optind' = G.optind
  /\ skipped' = skipped \cup G.skip
  /\ UNCHANGED <<args, posix, quota, argv, bd, ln, src, dest, body, line, pc,
                 status, exitLine, out, err>>
  /\ UNCHANGED readallVars

\* case 'b'
OptB ==
  /\ pc = "getopt" /\ G.opt = "b"
  /\ bd' = G.optarg
  /\ optind' = G.optind
  /\ skipped' = skipped \cup G.skip
  /\ UNCHANGED <<args, posix, quota, argv, recursive, ln, src, dest, body, line,
                 pc, status, exitLine, out, err>>
  /\ UNCHANGED readallVars

\* case 'l'
OptL ==
  /\ pc = "getopt" /\ G.opt = "l"
  /\ ln' = G.optarg
  /\ optind' = G.optind
  /\ skipped' = skipped \cup G.skip
  /\ UNCHANGED <<args, posix, quota, argv, recursive, bd, src, dest, body, line,
                 pc, status, exitLine, out, err>>
  /\ UNCHANGED readallVars

\* case 'v'
OptV ==
  /\ pc = "getopt" /\ G.opt = "v"
  /\ optind' = G.optind
  /\ skipped' = skipped \cup G.skip
  /\ out' = Append(out, printf("version: %d", VERSION))
  /\ Exit("EXIT_SUCCESS", 82)
  /\ UNCHANGED <<args, posix, quota, argv, recursive, bd, ln, src, dest, body,
                 line, err>>
  /\ UNCHANGED readallVars

\* case 'h'
OptH ==
  /\ pc = "getopt" /\ G.opt = "h"
  /\ optind' = G.optind
  /\ skipped' = skipped \cup G.skip
  /\ out' = Append(out, usage)
  /\ Exit("EXIT_SUCCESS", 86)
  /\ UNCHANGED <<args, posix, quota, argv, recursive, bd, ln, src, dest, body,
                 line, err>>
  /\ UNCHANGED readallVars

\* default: getopt returned '?', character 63 (an unknown flag, or a flag
\* without its argument)
OptDefault ==
  /\ pc = "getopt" /\ G.opt = "?"
  /\ optind' = G.optind
  /\ skipped' = skipped \cup G.skip
  /\ out' = out \o <<printf("Unkown flag: %c", 63), usage>>
  /\ Exit("EXIT_FAILURE", 91)
  /\ UNCHANGED <<args, posix, quota, argv, recursive, bd, ln, src, dest, body,
                 line, err>>
  /\ UNCHANGED readallVars

\* getopt returned -1: the while loop of line 69 ends.
OptEnd ==
  /\ pc = "getopt" /\ G.opt = "EOF"
  /\ LET nonopt == IF posix THEN {} ELSE skipped \cup (optind..(Len(argv) - 1))
     IN /\ argv' = IF posix THEN argv ELSE Permuted(argv, nonopt)
        /\ optind' = IF posix THEN optind ELSE Len(argv) - Cardinality(nonopt)
        /\ skipped' = nonopt
  /\ pc' = "argcheck"
  /\ UNCHANGED <<args, posix, quota, recursive, bd, ln, src, dest, body, line,
                 status, exitLine, out, err>>
  /\ UNCHANGED readallVars

\* line 96: argc-optind > 2 || argc-optind < 1 (and, for comparison, a test
\* that lets three through)
WrongAmountAboveThree(n) == n > 3 \/ n < 1
WrongAmount(n) == n > 2 \/ n < 1

ArgcFail ==
  /\ pc = "argcheck"
  /\ WrongAmount(Len(argv) - optind)
  /\ out' = out \o <<printf("Wrong amount of arguments.", 0), usage>>
  /\ Exit("EXIT_FAILURE", 99)
  /\ UNCHANGED <<args, posix, quota, err>>
  /\ UNCHANGED mainVars
  /\ UNCHANGED tmplVars
  /\ UNCHANGED readallVars

ArgcOk ==
  /\ pc = "argcheck"
  /\ ~WrongAmount(Len(argv) - optind)
  /\ dest' = argv[Len(argv)]
  /\ src' = IF Len(argv) - optind = 2 THEN argv[Len(argv) - 1] ELSE src
  /\ pc' = "main111"
  /\ UNCHANGED <<args, posix, quota, argv, optind, skipped, recursive, bd, ln>>
  /\ UNCHANGED tmplVars
  /\ UNCHANGED exitVars
  /\ UNCHANGED readallVars

----------------------------------------------------------------------------
\* size_t arithmetic on representatives.

\* a <= b and a < b as unsigned comparisons.
ULe(a, b) ==
  IF a >= 0 /\ b < 0 THEN TRUE
  ELSE IF a < 0 /\ b >= 0 THEN FALSE
  ELSE a <= b
ULt(a, b) == ULe(a, b) /\ a # b

\* nch += len.  A counter that keeps wrapping downward (a descriptor whose
\* every read fails) is pinned at the lowest value the quota allows; every
\* value below it is as far above size as that one.
SizeAdd(a, b, floor) == Max(a + b, 0 - (floor + 1))

----------------------------------------------------------------------------
\* Block contents.

Extent(at, n, kind, f, s) == [at |-> at, n |-> n, kind |-> kind, fd |-> f, src |-> s]

\* The part of extent x that lies in lo..hi-1 (a set of zero or one extent).
Inside(x, lo, hi) ==
  LET a == Max(x.at, lo)
      b == Min(x.at + x.n, hi)
  IN IF a >= b THEN {}
     ELSE {Extent(a, b - a, x.kind, x.fd,
                  IF x.kind = "file" THEN x.src + (a - x.at) ELSE 0)}

\* The bytes of data at offsets lo..hi-1.
Keep(data, lo, hi) == UNION {Inside(x, lo, hi) : x \in data}

Joinable(a, b) ==
  /\ a.at + a.n = b.at
  /\ a.kind = b.kind
  /\ a.fd = b.fd
  /\ a.kind = "file" => a.src + a.n = b.src

\* data with the bytes of extent e stored over whatever was there.
Put(data, e) ==
  LET rest == UNION {Inside(x, x.at, e.at) \cup Inside(x, e.at + e.n, x.at + x.n)
                       : x \in data}
      L == {x \in rest : Joinable(x, e)}
      e1 == IF L = {} THEN e
            ELSE LET x == CHOOSE x \in L : TRUE IN [x EXCEPT !.n = x.n + e.n]
      R == {x \in rest : Joinable(e1, x)}
      e2 == IF R = {} THEN e1
            ELSE LET x == CHOOSE x \in R : TRUE IN [e1 EXCEPT !.n = e1.n + x.n]
  IN (rest \ (L \cup R)) \cup {e2}

\* What byte i of data is.
ByteAt(data, i) ==
  LET X == {x \in data : x.at <= i /\ i < x.at + x.n}
  IN IF X = {} THEN [kind |-> "indet", fd |-> 0, off |-> 0]
     ELSE LET x == CHOOSE x \in X : TRUE
          IN IF x.kind = "nul" THEN [kind |-> "nul", fd |-> 0, off |-> 0]
             ELSE [kind |-> "file", fd |-> x.fd, off |-> x.src + (i - x.at)]

Block(cap, data, by) == [live |-> TRUE, cap |-> cap, data |-> data, by |-> by]

\* realloc copies the old contents up to the lesser of the two sizes.
ReallocCopy(data, oldcap, newcap) == Keep(data, 0, Min(oldcap, newcap))

\* The heap after realloc(p, n) moved the block.
ReallocMoved(h, p, n, by) ==
  Append([h EXCEPT ![p].live = FALSE],
         Block(n, ReallocCopy(h[p].data, h[p].cap, n), by))

\* The heap after realloc(p, n) resized the block where it is.
ReallocInPlace(h, p, n) ==
  [h EXCEPT ![p].cap = n, ![p].data = ReallocCopy(h[p].data, h[p].cap, n)]

----------------------------------------------------------------------------
\* The environment of one readall call.

\* A quota says which files open may find (0 or 13 bytes, or within slack of
\* 1..chunks times READ_SIZE) and how many reads of a regular file may come
\* back short or fail.  Under Spec each template is a file of 0, 13 or 2048
\* bytes that is read in full chunks, or a directory; under SpecReadall the
\* bounds of the model apply.
MainQuota == [chunks |-> 1, slack |-> 0, shorts |-> 0, fails |-> 0]
UnitQuota == [chunks |-> MaxChunks, slack |-> 1, shorts |-> MaxShorts,
              fails |-> MaxFails]

FileSizes(q) ==
  {0, 13} \cup {k * READ_SIZE + d : k \in 1..q.chunks, d \in (0 - q.slack)..q.slack}

\* What open(fp, O_RDONLY) can find: a regular file of some size, or a
\* directory (which opens, and whose every read fails).
Files(q) ==
  {[kind |-> "file", size |-> s, pos |-> 0] : s \in FileSizes(q)}
    \cup {[kind |-> "dir", size |-> 0, pos |-> 0]}

\* What read(fd, p, READ_SIZE) can return with rem bytes left before end of
\* file: everything it was asked for or is left, or less.
ReadLens(rem, short) ==
  LET full == Min(READ_SIZE, rem)
  IN {full} \cup (IF short THEN {l \in {1, READ_SIZE - 1} : l < full} ELSE {})

----------------------------------------------------------------------------
\* main, lines 111-114: the calls of readall.  Entering readall sets its
\* locals (line 29); len, buf and fd have no value yet and are shown as 0.

EnterReadall(which) ==
  /\ call' = which
  /\ nch' = 0 /\ size' = BUFFER_SIZE /\ len' = 0 /\ buf' = NULL /\ fd' = 0
  /\ didRead' = FALSE /\ shorts' = 0 /\ fails' = 0
  /\ order' = <<>>
  /\ pc' = "open"
  /\ UNCHANGED <<ftab, opens, heap, terms, frees, wild>>

SkipReadall(next) ==
  /\ pc' = next
  /\ UNCHANGED readallVars

\* line 111
Main111 ==
  /\ pc = "main111"
  /\ IF bd # NoStr THEN EnterReadall("bd") ELSE SkipReadall("main113")
  /\ UNCHANGED <<args, posix, quota>>
  /\ UNCHANGED mainVars
  /\ UNCHANGED tmplVars
  /\ UNCHANGED exitVars

\* line 113
Main113 ==
  /\ pc = "main113"
  /\ IF ln # NoStr THEN EnterReadall("ln") ELSE SkipReadall("main119")
  /\ UNCHANGED <<args, posix, quota>>
  /\ UNCHANGED mainVars
  /\ UNCHANGED tmplVars
  /\ UNCHANGED exitVars

----------------------------------------------------------------------------
\* readall

\* line 34: fd == -1 (and, for comparison, a test against 0)
OpenFailedTestsZero(r) == r = 0
OpenFailed(r) == r = -1

\* lines 33-37
Open ==
  /\ pc = "open"
  /\ opens' = opens + 1
  /\ \E f \in Files(quota) \cup {[kind |-> "none", size |-> 0, pos |-> 0]} :
       LET r == IF f.kind = "none" THEN -1 ELSE Len(ftab) + 3
       IN /\ fd' = r
          /\ ftab' = IF r = -1 THEN ftab ELSE Append(ftab, f)
          /\ IF OpenFailed(r)
             THEN /\ err' = Append(err, "Could not read input template")
                  /\ Exit("EXIT_FAILURE", 36)
                  /\ UNCHANGED out
             ELSE /\ pc' = "malloc"
                  /\ UNCHANGED exitVars
  /\ UNCHANGED <<args, posix, quota, call, heap>>
  /\ UNCHANGED mainVars
  /\ UNCHANGED tmplVars
  /\ UNCHANGED loopVars
  /\ UNCHANGED envVars
  /\ UNCHANGED logVars

\* lines 39-43
Malloc ==
  /\ pc = "malloc"
  /\ \/ /\ heap' = Append(heap, Block(size, {}, call))
        /\ buf' = Len(heap) + 1
        /\ pc' = "read"
        /\ UNCHANGED exitVars
     \/ /\ buf' = NULL
        /\ err' = Append(err, "Could not allocate memory for input template")
        /\ Exit("EXIT_FAILURE", 42)
        /\ UNCHANGED <<heap, out>>
  /\ UNCHANGED <<args, posix, quota, call, nch, len, size>>
  /\ UNCHANGED mainVars
  /\ UNCHANGED tmplVars
  /\ UNCHANGED fileVars
  /\ UNCHANGED envVars
  /\ UNCHANGED logVars

\* The open file behind fd, if there is one.
HasFile == fd >= 3 /\ fd - 2 <= Len(ftab)
File == ftab[fd - 2]

\* Where read stores its bytes: buf + nch.
ReadTarget(n) == n

\* line 46, read returns n > 0 bytes and stores them at buf + nch.  The part
\* of the target that lies outside the block is a wild write.
ReadData ==
  /\ pc = "read"
  /\ HasFile /\ File.kind = "file" /\ File.pos < File.size
  /\ \E n \in ReadLens(File.size - File.pos, shorts < quota.shorts) :
       LET at == ReadTarget(nch)
           e == Extent(at, n, "file", fd, File.pos)
           inb == Inside(e, 0, heap[buf].cap)
       IN /\ len' = n
          /\ heap' = IF inb = {} THEN heap
                     ELSE [heap EXCEPT ![buf].data =
                             Put(@, CHOOSE x \in inb : TRUE)]
          /\ wild' = (wild \/ at < 0 \/ at + n > heap[buf].cap)
          /\ ftab' = [ftab EXCEPT ![fd - 2].pos = @ + n]
          /\ shorts' = IF n < Min(READ_SIZE, File.size - File.pos)
                       THEN shorts + 1 ELSE shorts
  /\ didRead' = TRUE
  /\ pc' = "body"
  /\ UNCHANGED <<args, posix, quota, call, fd, opens, nch, size, buf, fails,
                 order, terms, frees>>
  /\ UNCHANGED mainVars
  /\ UNCHANGED tmplVars
  /\ UNCHANGED exitVars

\* line 46, read returns 0: end of file, the loop ends.
ReadEof ==
  /\ pc = "read"
  /\ HasFile /\ File.kind = "file" /\ File.pos = File.size
  /\ len' = 0
  /\ didRead' = TRUE
  /\ pc' = "shrink"
  /\ UNCHANGED <<args, posix, quota, call, nch, size, buf, heap, shorts, fails>>
  /\ UNCHANGED mainVars
  /\ UNCHANGED tmplVars
  /\ UNCHANGED exitVars
  /\ UNCHANGED fileVars
  /\ UNCHANGED logVars

\* line 46, read returns -1, which len (a size_t) holds as SIZE_MAX: a bad
\* descriptor or a directory every time, a regular file now and then.
ReadFail ==
  /\ pc = "read"
  /\ \/ ~HasFile
     \/ HasFile /\ File.kind = "dir"
     \/ HasFile /\ File.kind = "file" /\ fails < quota.fails
  /\ len' = -1
  /\ fails' = Min(fails + 1, quota.fails)
  /\ didRead' = TRUE
  /\ pc' = "body"
  /\ UNCHANGED <<args, posix, quota, call, nch, size, buf, heap, shorts>>
  /\ UNCHANGED mainVars
  /\ UNCHANGED tmplVars
  /\ UNCHANGED exitVars
  /\ UNCHANGED fileVars
  /\ UNCHANGED logVars

\* line 48: size-nch <= READ_SIZE (and, for comparison, the strict test)
NeedGrowStrict(sz, n) == ULt(sz - n, READ_SIZE)
NeedGrow(sz, n) == ULe(sz - n, READ_SIZE)

\* line 49: size *= 2
Grown(sz) == sz * 2

\* lines 47-55, the loop body when there is room left: nothing is reallocated.
BodyKeep ==
  /\ pc = "body"
  /\ nch' = SizeAdd(nch, len, quota.fails)
  /\ ~NeedGrow(size, nch')
  /\ pc' = "read"
  /\ UNCHANGED <<args, posix, quota, call, len, size, buf, heap>>
  /\ UNCHANGED mainVars
  /\ UNCHANGED tmplVars
  /\ UNCHANGED exitVars
  /\ UNCHANGED fileVars
  /\ UNCHANGED envVars
  /\ UNCHANGED logVars

\* lines 47-55, the loop body when the room is short and realloc succeeds,
\* in place or by moving the block.
BodyGrow ==
  /\ pc = "body"
  /\ nch' = SizeAdd(nch, len, quota.fails)
  /\ NeedGrow(size, nch')
  /\ size' = Grown(size)
  /\ \/ /\ heap' = ReallocInPlace(heap, buf, size')
        /\ buf' = buf
     \/ /\ heap' = ReallocMoved(heap, buf, size', call)
        /\ buf' = Len(heap) + 1
  /\ pc' = "read"
  /\ UNCHANGED <<args, posix, quota, call, len>>
  /\ UNCHANGED mainVars
  /\ UNCHANGED tmplVars
  /\ UNCHANGED exitVars
  /\ UNCHANGED fileVars
  /\ UNCHANGED envVars
  /\ UNCHANGED logVars

\* lines 47-55, the loop body when the room is short and realloc returns NULL.
BodyGrowFail ==
  /\ pc = "body"
  /\ nch' = SizeAdd(nch, len, quota.fails)
  /\ NeedGrow(size, nch')
  /\ size' = Grown(size)
  /\ buf' = NULL
  /\ err' = Append(err, "Could not allocate memory for input template")
  /\ Exit("EXIT_FAILURE", 53)
  /\ UNCHANGED <<args, posix, quota, call, len, heap, out>>
  /\ UNCHANGED mainVars
  /\ UNCHANGED tmplVars
  /\ UNCHANGED fileVars
  /\ UNCHANGED envVars
  /\ UNCHANGED logVars

\* What realloc(buf, n) of line 57 can do.  n is nch + 1 as a size_t: a
\* request of SIZE_MAX or near it cannot be met, a request of 0 bytes
\* releases the block or leaves an empty one.
ShrinkOutcomes(n) ==
  IF n < 0 THEN {"fail"}
  ELSE IF n = 0 THEN {"freed", "inplace"}
  ELSE {"fail", "inplace", "moved"}

\* line 57: realloc(buf, sizeof(char) * nch + 1), its result not kept.
Shrink ==
  /\ pc = "shrink"
  /\ \E o \in ShrinkOutcomes(nch + 1) :
       heap' = CASE o = "fail" -> heap
                 [] o = "freed" -> [heap EXCEPT ![buf].live = FALSE]
                 [] o = "inplace" -> ReallocInPlace(heap, buf, nch + 1)
                 [] o = "moved" -> ReallocMoved(heap, buf, nch + 1, call)
  /\ order' = Append(order, "shrink")
  /\ pc' = "term"
  /\ UNCHANGED <<args, posix, quota, call, terms, frees, wild>>
  /\ UNCHANGED mainVars
  /\ UNCHANGED tmplVars
  /\ UNCHANGED exitVars
  /\ UNCHANGED fileVars
  /\ UNCHANGED loopVars
  /\ UNCHANGED envVars

\* buf[nch] is a byte of a live block.
TermInBlock == heap[buf].live /\ 0 <= nch /\ nch < heap[buf].cap

TermEntry == [blk |-> buf, at |-> nch, live |-> heap[buf].live, by |-> call]

\* lines 58-59 and the assignment of line 112 or 114: buf[nch++] = '\0';
\* return buf.  A store outside a live block is undefined: here it goes
\* unnoticed, in TermCrash it ends the process.
Term ==
  /\ pc = "term"
  /\ heap' = IF TermInBlock
             THEN [heap EXCEPT ![buf].data = Put(@, Extent(nch, 1, "nul", 0, 0))]
             ELSE heap
  /\ wild' = (wild \/ ~TermInBlock)
  /\ terms' = Append(terms, TermEntry)
  /\ order' = Append(order, "term")
  /\ nch' = nch + 1
  /\ IF call = "bd"
     THEN body' = buf /\ line' = line /\ pc' = "main113"
     ELSE line' = buf /\ body' = body /\ pc' = "main119"
  /\ UNCHANGED <<args, posix, quota, call, len, size, buf, frees>>
  /\ UNCHANGED mainVars
  /\ UNCHANGED exitVars
  /\ UNCHANGED fileVars
  /\ UNCHANGED envVars

TermCrash ==
  /\ pc = "term"
  /\ ~TermInBlock
  /\ terms' = Append(terms, TermEntry)
  /\ order' = Append(order, "term")
  /\ Exit("SIGNAL", 58)
  /\ UNCHANGED <<args, posix, quota, call, heap, frees, wild, out, err>>
  /\ UNCHANGED mainVars
  /\ UNCHANGED tmplVars
  /\ UNCHANGED fileVars
  /\ UNCHANGED loopVars
  /\ UNCHANGED envVars

----------------------------------------------------------------------------
\* main, lines 119-123.

\* free(p) at source line ln_, then on to pc next.  Freeing a released block
\* is undefined: it goes unnoticed or the allocator aborts the process.
Free(p, ln_, next) ==
  /\ frees' = Append(frees, [blk |-> p, live |-> heap[p].live])
  /\ \/ /\ heap' = [heap EXCEPT ![p].live = FALSE]
        /\ pc' = next
        /\ UNCHANGED exitVars
     \/ /\ ~heap[p].live
        /\ Exit("SIGNAL", ln_)
        /\ UNCHANGED <<heap, out, err>>

\* lines 119-120
Main119 ==
  /\ pc = "main119"
  /\ IF bd # NoStr
     THEN Free(body, 120, "main121")
     ELSE pc' = "main121" /\ UNCHANGED <<heap, frees>> /\ UNCHANGED exitVars
  /\ UNCHANGED <<args, posix, quota, call, order, terms, wild>>
  /\ UNCHANGED mainVars
  /\ UNCHANGED tmplVars
  /\ UNCHANGED fileVars
  /\ UNCHANGED loopVars
  /\ UNCHANGED envVars

\* lines 121-122
Main121 ==
  /\ pc = "main121"
  /\ IF ln # NoStr
     THEN Free(line, 122, "main123")
     ELSE pc' = "main123" /\ UNCHANGED <<heap, frees>> /\ UNCHANGED exitVars
  /\ UNCHANGED <<args, posix, quota, call, order, terms, wild>>
  /\ UNCHANGED mainVars
  /\ UNCHANGED tmplVars
  /\ UNCHANGED fileVars
  /\ UNCHANGED loopVars
  /\ UNCHANGED envVars

\* line 123
Main123 ==
  /\ pc = "main123"
  /\ Exit("EXIT_SUCCESS", 123)
  /\ UNCHANGED <<args, posix, quota, out, err>>
  /\ UNCHANGED mainVars
  /\ UNCHANGED tmplVars
  /\ UNCHANGED readallVars

----------------------------------------------------------------------------
\* The program from the start of main, for every command line of up to
\* MaxArgs arguments and both kinds of getopt.

InitProcess ==
  /\ recursive = 0 /\ bd = NoStr /\ ln = NoStr /\ src = "." /\ dest = NoStr
  /\ body = Literal /\ line = Literal
  /\ status = "running" /\ exitLine = 0 /\ out = <<>> /\ err = <<>>
  /\ call = "none" /\ fd = 0 /\ ftab = <<>> /\ opens = 0
  /\ nch = 0 /\ len = 0 /\ size = 0 /\ buf = NULL /\ heap = <<>>
  /\ didRead = FALSE /\ shorts = 0 /\ fails = 0
  /\ order = <<>> /\ terms = <<>> /\ frees = <<>> /\ wild = FALSE

Init ==
  /\ args \in {<<"statik">> \o a : a \in ArgLists}
  /\ posix \in BOOLEAN
  /\ quota = MainQuota
  /\ argv = args /\ optind = 1 /\ skipped = {}
  /\ pc = "getopt"
  /\ InitProcess

NextReadall ==
  \/ Open \/ Malloc
  \/ ReadData \/ ReadEof \/ ReadFail
  \/ BodyKeep \/ BodyGrow \/ BodyGrowFail
  \/ Shrink \/ Term \/ TermCrash

Next ==
  \/ OptR \/ OptB \/ OptL \/ OptV \/ OptH \/ OptDefault \/ OptEnd
  \/ ArgcFail \/ ArgcOk
  \/ Main111 \/ Main113
  \/ NextReadall
  \/ Main119 \/ Main121 \/ Main123

Spec == Init /\ [][Next]_vars

\* readall alone, as main calls it at line 112 for "statik -bw w", with a
\* wider choice of files and of read results.
InitReadall ==
  /\ args = <<"statik", "-bw", "w">>
  /\ posix = FALSE
  /\ quota = UnitQuota
  /\ argv = args /\ optind = 2 /\ skipped = {2}
  /\ recursive = 0 /\ bd = "w" /\ ln = NoStr /\ src = "." /\ dest = "w"
  /\ body = Literal /\ line = Literal
  /\ status = "running" /\ exitLine = 0 /\ out = <<>> /\ err = <<>>
  /\ call = "bd" /\ fd = 0 /\ ftab = <<>> /\ opens = 0
  /\ nch = 0 /\ len = 0 /\ size = BUFFER_SIZE /\ buf = NULL /\ heap = <<>>
  /\ didRead = FALSE /\ shorts = 0 /\ fails = 0
  /\ order = <<>> /\ terms = <<>> /\ frees = <<>> /\ wild = FALSE
  /\ pc = "open"

SpecReadall == InitReadall /\ [][NextReadall]_vars

\* The process is scheduled: a step that can be taken is taken.
FairReadall == SpecReadall /\ WF_vars(NextReadall)

----------------------------------------------------------------------------
\* Vocabulary of the properties.

Range(s) == {s[i] : i \in 1..Len(s)}

\* Byte i of the block p points to.  A released block holds nothing one can
\* rely on.
Contents(p, i) ==
  IF heap[p].live THEN ByteAt(heap[p].data, i)
  ELSE [kind |-> "indet", fd |-> 0, off |-> 0]

FileByte(f, i) == [kind |-> "file", fd |-> f, off |-> i]

\* Block p holds the whole file open on descriptor f, then the terminator.
HoldsFile(p, f) ==
  /\ heap[p].live
  /\ \A i \in 0..(ftab[f - 2].size - 1) : Contents(p, i) = FileByte(f, i)
  /\ Contents(p, ftab[f - 2].size).kind = "nul"

\* readall(bd) has returned to line 112 (under SpecReadall nothing follows).
Returned == pc = "main113" /\ call = "bd"

\* C1: for every file size and every split of the file into reads of 1 to
\* 2048 bytes (no read fails), the buffer readall returns holds the file's
\* bytes in order and the terminator right after them.
C1_ReturnedBufferHoldsFile ==
  (Returned /\ fails = 0) => HoldsFile(body, fd)

\* C2: from the first allocation until the terminator is written, the
\* capacity is above the number of bytes read: nch + 1 <= size, and the block
\* buf points to, while allocated, is that large.
C2_CapacityAboveLength ==
  pc \in {"read", "body", "shrink", "term"} =>
    /\ ULt(nch, size)
    /\ heap[buf].live => ULt(nch, heap[buf].cap)

\* C3: in a run of readall that completes, the terminator is written exactly
\* once, at the offset right after the last byte read, and the shrinking
\* realloc comes only after that write.
C3_TerminatorOnceThenShrink ==
  Returned =>
    /\ Len(terms) = 1
    /\ terms[1].at = ftab[fd - 2].pos
    /\ \A i, j \in 1..Len(order) :
         (order[i] = "term" /\ order[j] = "shrink") => i < j

\* C4: whatever the shrinking realloc does, it does not end the process, the
\* terminator is written into an allocated block, and the buffer main
\* receives is an allocated block holding the file and its terminator, which
\* main frees once.
C4_ShrinkLeavesBufferUsable ==
  /\ ~(pc = "exited" /\ status = "SIGNAL")
  /\ \A k \in 1..Len(terms) : terms[k].live
  /\ \A k \in 1..Len(frees) : frees[k].live
  /\ (pc = "main113" /\ call = "bd") => HoldsFile(body, fd)
  /\ (pc = "main119" /\ call = "ln") => HoldsFile(line, fd)
  /\ (pc = "main119" /\ bd # NoStr) => heap[body].live

\* C5: when open fails, readall ends the process with a failure status
\* before allocating and before reading; nothing is returned, and a failure
\* on the -b template leaves the -l template unopened.
C5_OpenFailureIsFatal ==
  fd = -1 =>
    /\ pc = "exited" /\ exitLine = 36 /\ status = "EXIT_FAILURE"
    /\ err = <<"Could not read input template">>
    /\ buf = NULL /\ ~didRead
    /\ \A k \in 1..Len(heap) : heap[k].by # call
    /\ call = "bd" => (body = Literal /\ opens = 1)
    /\ call = "ln" => line = Literal

C5_Witness ==
  /\ fd = -1 /\ pc = "exited" /\ exitLine = 36
  /\ call = "bd" /\ ln # NoStr

PrintedVersion ==
  \/ pc = "getopt"
  \/ /\ pc = "exited" /\ exitLine = 82 /\ status = "EXIT_SUCCESS"
     /\ out = <<(<<"version: %d", 1>>)>>
     /\ opens = 0

\* C6 as claimed: whenever -v is among the arguments, before or after
\* whatever else, the program prints the version and exits with success.
C6_VersionWherever ==
  "-v" \in Range(Tail(args)) => PrintedVersion

\* The arguments s, read from the left, are all taken by getopt without
\* ending the scan: -r, -b or -l with its argument (in the same element or
\* the next), and under a permuting getopt positional arguments.
RECURSIVE PassedOver(_, _)
PassedOver(s, px) ==
  \/ s = <<>>
  \/ /\ s # <<>> /\ Head(s) \in {"-r", "-bw", "-lw"}
     /\ PassedOver(Tail(s), px)
  \/ /\ Len(s) >= 2 /\ Head(s) \in {"-b", "-l"}
     /\ PassedOver(Tail(Tail(s)), px)
  \/ /\ s # <<>> /\ Head(s) = "w" /\ ~px
     /\ PassedOver(Tail(s), px)

VReached ==
  \E i \in 2..Len(args) :
    args[i] = "-v" /\ PassedOver(SubSeq(args, 2, i - 1), posix)

\* C6 amended: when getopt reaches a -v (every argument before it is -r, a
\* -b or -l with its argument, or, where getopt permutes, a positional
\* argument), the program prints the version and exits with success,
\* whatever follows the -v.
C6_VersionWhenReached == VReached => PrintedVersion

C6_Witness ==
  /\ pc = "exited" /\ exitLine = 82
  /\ Len(args) = 5
  /\ args[2] = "-b" /\ args[3] = "-h" /\ args[4] = "-v" /\ args[5] = "-x"

\* The while loop of line 69 ended by getopt returning -1.
ParseEnded ==
  /\ pc # "getopt"
  /\ ~(pc = "exited" /\ exitLine \in {82, 86, 91})

\* C7: when option parsing ends without an exit and the number of
\* positional arguments (argc - optind) is not 1 or 2, the program exits
\* with failure and opens and reads no file, with or without -b and -l.
C7_WrongCountIsFatal ==
  (ParseEnded /\ (Len(argv) - optind) \notin {1, 2}) =>
    /\ pc \in {"argcheck", "exited"}
    /\ pc = "exited" =>
         /\ status = "EXIT_FAILURE" /\ exitLine = 99
         /\ out = <<(<<"Wrong amount of arguments.", 0>>), usage>>
    /\ opens = 0 /\ ftab = <<>> /\ ~didRead /\ heap = <<>>

C7_Witness ==
  /\ pc = "exited" /\ exitLine = 99
  /\ Len(argv) - optind = 3
  /\ bd # NoStr

\* C8: capacity starts at 4096 and changes only by doubling; the loop body
\* after a read of more than zero bytes doubles it exactly when capacity
\* minus the bytes read so far is at most 2048, once, and the bytes already
\* read are the same after the doubling as before.
C8_Step ==
  /\ pc \in {"open", "malloc"} => size = BUFFER_SIZE
  /\ (pc = "malloc" /\ pc' = "read") => heap'[buf'].cap = BUFFER_SIZE
  /\ size' = size \/ size' = 2 * size
  /\ size' # size => pc = "body"
  /\ (pc = "body" /\ len > 0) =>
       /\ nch' = nch + len
       /\ size' = IF size - nch' <= READ_SIZE THEN 2 * size ELSE size
       /\ pc' = "read" =>
            /\ heap'[buf'].live /\ heap'[buf'].cap = size'
            /\ Keep(heap'[buf'].data, 0, nch') = Keep(heap[buf].data, 0, nch')

C8_DoublingRule == [][C8_Step]_vars

C8_Witness ==
  /\ pc = "read" /\ size = 4 * BUFFER_SIZE /\ nch = 3 * READ_SIZE
  /\ \A i \in {0, READ_SIZE, nch - 1} : Contents(buf, i) = FileByte(fd, i)

\* C9: every read is asked to store into bytes of the allocation (0 <= nch
\* and nch + 2048 <= capacity), and nch never decreases, whatever the reads
\* before returned.
C9_Step ==
  /\ pc' = "read" =>
       /\ 0 <= nch' /\ nch' + READ_SIZE <= heap'[buf'].cap
       /\ heap'[buf'].live
  /\ pc \in {"read", "body", "shrink", "term"} => nch' >= nch

C9_ReadStaysInBlock == [][C9_Step]_vars

\* C10: readall always finishes, by returning or by ending the process.
C10_ReadallFinishes == <>(pc \in {"main113", "exited"})

====
